---------------------------- MODULE Spec2Model ----------------------------
(***************************************************************************)
(* GPU bind-path resolution of singularity (package gpuutils):             *)
(* GetGpuPath, with its helpers gpuContainerCli and gpuLiblist.            *)
(* src/unnamed/part_000 (package gpu, func Paths) is the same algorithm    *)
(* with explicit (nil, nil, err) returns; the model follows GetGpuPath.    *)
(*                                                                         *)
(* Strings are sequences of one-character strings, so that the string      *)
(* operations of the code (Contains, HasPrefix, TrimSpace, Base,           *)
(* SplitAfter, SplitList, Join) are computed and not assumed.              *)
(***************************************************************************)
EXTENDS Integers, Sequences, FiniteSets, TLC

(***************************************************************************)
(* Bounds of the model.                                                    *)
(***************************************************************************)
\* longest helper output / manifest file, in lines
MaxLines == 2
\* longest ldconfig listing, in matching lines
MaxCache == 2

(***************************************************************************)
(* Go's strings / filepath functions used by the code.                     *)
(***************************************************************************)
IsSpace(c) == c \in {" ", "\t"}

RECURSIVE TrimLeft(_)
TrimLeft(s) ==
    IF s # <<>> /\ IsSpace(Head(s)) THEN TrimLeft(Tail(s)) ELSE s

RECURSIVE TrimRight(_)
TrimRight(s) ==
    IF s # <<>> /\ IsSpace(s[Len(s)]) THEN TrimRight(SubSeq(s, 1, Len(s) - 1)) ELSE s

TrimSpace(s) == TrimRight(TrimLeft(s))

HasPrefix(s, prefix) ==
    /\ Len(prefix) <= Len(s)
    /\ SubSeq(s, 1, Len(prefix)) = prefix

\* the positions at which substr starts in s
Occurrences(s, substr) ==
    {i \in 1..(Len(s) - Len(substr) + 1) : SubSeq(s, i, i + Len(substr) - 1) = substr}

Contains(s, substr) == substr = <<>> \/ Occurrences(s, substr) # {}

Min(S) == CHOOSE x \in S : \A y \in S : x <= y
Max(S) == CHOOSE x \in S : \A y \in S : x >= y

\* strings.SplitAfter(s, sep)[0]: s up to and including the first sep
SplitAfterFirst(s, sep) ==
    IF Occurrences(s, sep) = {} THEN s
    ELSE SubSeq(s, 1, Min(Occurrences(s, sep)) + Len(sep) - 1)

RECURSIVE StripSlashes(_)
StripSlashes(s) ==
    IF Len(s) > 0 /\ s[Len(s)] = "/" THEN StripSlashes(SubSeq(s, 1, Len(s) - 1)) ELSE s

\* filepath.Base
Base(path) ==
    IF path = <<>> THEN <<".">>
    ELSE LET p == StripSlashes(path)
             slashes == {i \in 1..Len(p) : p[i] = "/"}
         IN  IF p = <<>> THEN <<"/">>
             ELSE IF slashes = {} THEN p
             ELSE SubSeq(p, Max(slashes) + 1, Len(p))

\* filepath.SplitList on ':' ; the empty string has no elements
RECURSIVE SplitList(_)
SplitList(path) ==
    IF path = <<>> THEN <<>>
    ELSE LET colons == {i \in 1..Len(path) : path[i] = ":"}
         IN  IF colons = {} THEN <<path>>
             ELSE LET k == Min(colons)
                      rest == SubSeq(path, k + 1, Len(path))
                  IN  <<SubSeq(path, 1, k - 1)>>
                        \o (IF rest = <<>> THEN << <<>> >> ELSE SplitList(rest))

Range(s) == {s[i] : i \in 1..Len(s)}

NoDup(s) == \A i, j \in 1..Len(s) : s[i] = s[j] => i = j

IsPrefixOf(s, t) == Len(s) <= Len(t) /\ SubSeq(t, 1, Len(s)) = s

\* the sequences over S of length at most n
SeqsUpTo(S, n) == UNION {[1..k -> S] : k \in 0..n}


(***************************************************************************)
(* The host the calls run on: names, files and directories.                *)
(***************************************************************************)
SoMarker == <<".", "s", "o">>
Nil == "nil"

\* the name the helper tool is looked up by
HelperName ==
    <<"n","v","i","d","i","a","-","c","o","n","t","a","i","n","e","r","-","c","l","i">>

DirB == <<"/", "b">>
DirC == <<"/", "c">>
Smi == <<"s", "m", "i">>
Join(dir, file) == dir \o <<"/">> \o file

\* executable files of the host: the helper lives in /b only, smi in /b and /c
Executables == {Join(DirB, HelperName), Join(DirB, Smi), Join(DirC, Smi)}

\* library files of the host
PathL == <<"/", "l", "/", "a", ".", "s", "o", ".", "1">>
PathM == <<"/", "m", "/", "a", ".", "s", "o", ".", "1">>
LibPaths == {PathL, PathM}

\* what elf.Open finds in a file: a machine identifier, or no object file
EM_X86_64 == "EM_X86_64"
EM_386 == "EM_386"
NoELF == "NoELF"
FileKinds == {EM_X86_64, EM_386, NoELF}

\* lines the helper tool may print
CliLineSet ==
    { PathL,                           \* "/l/a.so.1"
      <<" ">> \o Join(DirB, Smi),      \* " /b/smi"
      <<>> }                           \* ""

\* lines the manifest file may hold
ManifestLineSet ==
    { <<"a", ".", "s", "o">>,          \* "a.so"
      Smi \o <<" ">>,                  \* "smi "
      <<"#", "a", ".", "s", "o">>,     \* "#a.so"
      <<" ">> }                        \* " "

\* the two captured groups of a matching ldconfig line, untrimmed
LdMatchSet ==
    { << <<"\t", "a", ".", "s", "o", ".", "1", " ">>, PathL \o <<" ">> >>,
      << <<"\t", "a", ".", "s", "o", ".", "1", " ">>, PathM >>,
      << <<"\t", "b", "a", ".", "s", "o", " ">>, PathM >> }

\* values of the PATH variable before the call, and of the envPath argument
Unset == [set |-> FALSE, val |-> <<>>]
InitialPaths == {Unset, [set |-> TRUE, val |-> DirB]}
EnvPaths == {<<>>, DirC, DirC \o <<":">> \o DirB}


(***************************************************************************)
(* os.Getenv / os.Setenv and exec.LookPath.                                *)
(***************************************************************************)
\* os.Getenv: the value, empty when the variable is not present
Getenv(env) == IF env.set THEN env.val ELSE <<>>

\* os.Setenv
Setenv(value) == [set |-> TRUE, val |-> value]

NotFound == <<>>

\* the first directory of dirs that holds an executable named file
RECURSIVE FindInDirs(_, _)
FindInDirs(dirs, file) ==
    IF dirs = <<>> THEN NotFound
    ELSE LET dir == IF Head(dirs) = <<>> THEN <<".">> ELSE Head(dirs)
             path == Join(dir, file)
         IN  IF path \in Executables THEN path ELSE FindInDirs(Tail(dirs), file)

\* exec.LookPath under the PATH variable env: the resolved path, or NotFound
LookPath(file, env) ==
    IF Contains(file, <<"/">>)
    THEN IF file \in Executables THEN file ELSE NotFound
    ELSE FindInDirs(SplitList(Getenv(env)), file)

(***************************************************************************)
(* The candidate providers.                                                *)
(***************************************************************************)
\* the scanner loop of gpuContainerCli over the helper's output lines
RECURSIVE CliScan(_)
CliScan(lines) ==
    IF lines = <<>> THEN <<>>
    ELSE LET line == TrimSpace(Head(lines))
             fileName == Base(line)
         IN  (IF line = <<>> THEN <<>>
              ELSE IF Contains(line, SoMarker)
                   THEN <<fileName, SplitAfterFirst(fileName, SoMarker)>>
                   ELSE <<line>>)
             \o CliScan(Tail(lines))

\* gpuContainerCli: env is PATH at the call, runOK whether the helper ran and
\* exited with status 0, lines its standard output
GpuContainerCli(env, runOK, lines) ==
    IF LookPath(HelperName, env) = NotFound
    THEN [strArray |-> <<>>, err |-> "no nvidia-container-cli present"]
    ELSE IF ~runOK
         THEN [strArray |-> <<>>, err |-> "Unable to execute nvidia-container-cli"]
         ELSE [strArray |-> CliScan(lines), err |-> Nil]

\* whether gpuLiblist keeps a trimmed line
KeepsLine(line) == ~HasPrefix(line, <<"#">>) /\ line # <<>>

\* the scanner loop of gpuLiblist over the manifest's lines
RECURSIVE LiblistScan(_)
LiblistScan(lines) ==
    IF lines = <<>> THEN <<>>
    ELSE LET line == TrimSpace(Head(lines))
         IN  (IF KeepsLine(line) THEN <<line>> ELSE <<>>) \o LiblistScan(Tail(lines))

\* gpuLiblist: openOK whether the manifest could be opened, lines its content
GpuLiblist(openOK, lines) ==
    IF ~openOK
    THEN [strArray |-> <<>>, err |-> "open manifest"]
    ELSE [strArray |-> LiblistScan(lines), err |-> Nil]

(***************************************************************************)
(* The cache mapping: path -> name, the last line of a path winning.       *)
(***************************************************************************)
EmptyMap == [x \in {} |-> x]

MapSet(m, k, v) == [x \in DOMAIN m \cup {k} |-> IF x = k THEN v ELSE m[x]]

RECURSIVE BuildLdCache(_, _)
BuildLdCache(matches, ldCache) ==
    IF matches = <<>> THEN ldCache
    ELSE LET libName == TrimSpace(Head(matches)[1])
             libPath == TrimSpace(Head(matches)[2])
         IN  BuildLdCache(Tail(matches), MapSet(ldCache, libPath, libName))

(***************************************************************************)
(* The decisions of the resolution loop.                                   *)
(***************************************************************************)
\* "if the file contains a .so, treat it as a library"
IsLibrary(gpuFileName) == Contains(gpuFileName, SoMarker)

\* faulty variant of NameMatches: the candidate anywhere in the name
NameContains(lib, gpuFileName) == Contains(lib, gpuFileName)

\* the cache entry named lib is one the candidate asks for
NameMatches(lib, gpuFileName) == HasPrefix(lib, gpuFileName)

\* faulty variant of SeenLib: looks the name up among the values (the paths)
\* of the map instead of its keys
SeenLibByValue(libs, lib) == \E k \in DOMAIN libs : libs[k] = lib

\* the name has been resolved already
SeenLib(libs, lib) == lib \in DOMAIN libs

\* faulty variant of SameMachine: any object file passes
SameMachineAny(elibMachine, machine) == TRUE

\* the library has the machine of the running executable
SameMachine(elibMachine, machine) == elibMachine = machine

\* the binary has been resolved already
SeenBin(bins, binary) == binary \in DOMAIN bins


(***************************************************************************)
(* State.                                                                  *)
(*   PATH   the process-wide PATH environment variable                     *)
(*   fs     what elf.Open finds at each library path of the host           *)
(*   call   per caller, the locals of its activation of GetGpuPath         *)
(*   log    per caller, what the activation has done so far (observation   *)
(*          only: no action reads it)                                      *)
(*   path0  PATH before any call started (observation only)                *)
(***************************************************************************)
VARIABLES PATH, fs, call, log, path0

vars == <<PATH, fs, call, log, path0>>

Procs == {1, 2}

\* the machine identifier of /proc/self/exe
SelfMachine == EM_X86_64
SelfExe == <<"/", "p", "r", "o", "c", "/", "s", "e", "l", "f", "/", "e", "x", "e">>

\* both callers are in the process: the calls are concurrent
Concurrent == \A p \in Procs : call[p].pc # "idle"

\* with two concurrent callers one line and one cache entry per caller
ConcMaxLines == 1
ConcMaxCache == 1
LinesBound == IF Concurrent THEN ConcMaxLines ELSE MaxLines
CacheBound == IF Concurrent THEN ConcMaxCache ELSE MaxCache

NewCall(active, envPath) ==
    [ pc        |-> IF active THEN "start" ELSE "idle",
      envPath   |-> envPath,
      oldPath   |-> <<>>,
      deferred  |-> FALSE,
      strArray  |-> <<>>,
      err       |-> Nil,
      out       |-> <<>>,
      machine   |-> "none",
      ldCache   |-> EmptyMap,
      libs      |-> EmptyMap,
      bins      |-> EmptyMap,
      libraries |-> <<>>,
      binaries  |-> <<>>,
      i         |-> 1,
      todo      |-> {},
      libPath   |-> <<>>,
      handles   |-> <<>>,
      ret       |-> [libraries |-> <<>>, binaries |-> <<>>, err |-> Nil] ]

NewLog ==
    [ providers |-> <<>>,
      cliErr    |-> Nil,
      cliLines  |-> <<>>,
      manifest  |-> <<>>,
      fatal     |-> "none",
      opens     |-> <<>>,
      lookups   |-> <<>>,
      setenvs   |-> 0 ]

\* one caller
Init ==
    /\ PATH \in InitialPaths
    /\ path0 = PATH
    /\ fs \in [LibPaths -> FileKinds]
    /\ \E e \in EnvPaths :
          call = [p \in Procs |-> IF p = 1 THEN NewCall(TRUE, e) ELSE NewCall(FALSE, <<>>)]
    /\ log = [p \in Procs |-> NewLog]

\* two callers with different non-empty overrides
InitConc ==
    /\ PATH = Setenv(DirB)
    /\ path0 = PATH
    /\ fs = [f \in LibPaths |-> IF f = PathL THEN EM_X86_64 ELSE EM_386]
    /\ call = [p \in Procs |->
                 NewCall(TRUE, IF p = 1 THEN DirC ELSE DirC \o <<":">> \o DirB)]
    /\ log = [p \in Procs |-> NewLog]

(***************************************************************************)
(* GetGpuPath, one action per step.                                        *)
(***************************************************************************)
\* lines 95-96: envPath test, oldPath := os.Getenv("PATH")
GetOldPath(p) ==
    /\ call[p].pc = "start"
    /\ call' = [call EXCEPT ![p] =
                  IF call[p].envPath # <<>>
                  THEN [@ EXCEPT !.oldPath = Getenv(PATH), !.pc = "setenv"]
                  ELSE [@ EXCEPT !.pc = "cli"]]
    /\ UNCHANGED <<PATH, fs, log, path0>>

\* lines 97-99: os.Setenv("PATH", envPath); defer os.Setenv("PATH", oldPath)
SetPath(p) ==
    /\ call[p].pc = "setenv"
    /\ PATH' = Setenv(call[p].envPath)
    /\ call' = [call EXCEPT ![p] = [@ EXCEPT !.deferred = TRUE, !.pc = "cli"]]
    /\ log' = [log EXCEPT ![p].setenvs = @ + 1]
    /\ UNCHANGED <<fs, path0>>

\* faulty variant of AfterCli: the manifest is read whatever the helper did
AfterCliAlways(err) == "liblist"

\* the pc after gpuContainerCli: the fallback is taken on error (line 104)
AfterCli(err) == IF err # Nil THEN "liblist" ELSE "ldconfig"

\* line 103: strArray, err = gpuContainerCli()
ContainerCli(p) ==
    /\ call[p].pc = "cli"
    /\ \E runOK \in BOOLEAN, lines \in SeqsUpTo(CliLineSet, LinesBound) :
          LET r == GpuContainerCli(PATH, runOK, lines)
          IN  /\ call' = [call EXCEPT ![p] =
                            [@ EXCEPT !.strArray = r.strArray, !.err = r.err,
                                      !.pc = AfterCli(r.err)]]
              /\ log' = [log EXCEPT ![p] =
                            [@ EXCEPT !.providers = Append(@, "cli"),
                                      !.cliErr = r.err,
                                      !.cliLines = IF r.err = Nil THEN lines ELSE <<>>]]
    /\ UNCHANGED <<PATH, fs, path0>>

\* the pc after gpuLiblist: a bare return on error (lines 111-114)
AfterLiblist(err) == IF err # Nil THEN "return" ELSE "ldconfig"

\* lines 104-115: the fallback, strArray, err = gpuLiblist(abspath, gpu.File)
Liblist(p) ==
    /\ call[p].pc = "liblist"
    /\ \E openOK \in BOOLEAN, lines \in SeqsUpTo(ManifestLineSet, LinesBound) :
          LET r == GpuLiblist(openOK, lines)
          IN  /\ call' = [call EXCEPT ![p] =
                            [@ EXCEPT !.strArray = r.strArray, !.err = r.err,
                                      !.pc = AfterLiblist(r.err)]]
              /\ log' = [log EXCEPT ![p] =
                            [@ EXCEPT !.providers = Append(@, "liblist"),
                                      !.manifest = IF openOK THEN lines ELSE <<>>,
                                      !.fatal = IF r.err # Nil THEN "manifest" ELSE @]]
    /\ UNCHANGED <<PATH, fs, path0>>

\* faulty variant of AfterLdconfig: the return on error is missing
AfterLdconfigGoOn(err) == "openself"

\* the pc after ldconfig -p: a bare return on error (lines 121-124)
AfterLdconfig(err) == IF err # Nil THEN "return" ELSE "openself"

\* lines 119-138: out, err := exec.Command("ldconfig", "-p").Output(); the
\* regular expression is a constant that compiles
Ldconfig(p) ==
    /\ call[p].pc = "ldconfig"
    /\ \E ok \in BOOLEAN, matches \in SeqsUpTo(LdMatchSet, CacheBound) :
          LET err == IF ok THEN Nil ELSE "ldconfig execution error"
          IN  /\ call' = [call EXCEPT ![p] =
                            [@ EXCEPT !.out = IF ok THEN matches ELSE <<>>, !.err = err,
                                      !.pc = AfterLdconfig(err)]]
              /\ log' = [log EXCEPT ![p].fatal = IF ok THEN @ ELSE "ldconfig"]
    /\ UNCHANGED <<PATH, fs, path0>>

\* the pc after elf.Open("/proc/self/exe"): a bare return on error (142-144)
AfterOpenSelf(err) == IF err # Nil THEN "return" ELSE "closeself"

\* lines 141-144: self, err := elf.Open("/proc/self/exe")
OpenSelf(p) ==
    /\ call[p].pc = "openself"
    /\ \E ok \in BOOLEAN :
          LET err == IF ok THEN Nil ELSE "open /proc/self/exe"
          IN  /\ call' = [call EXCEPT ![p] =
                            [@ EXCEPT !.err = err,
                                      !.handles = IF ok THEN Append(@, SelfExe) ELSE @,
                                      !.pc = AfterOpenSelf(err)]]
              /\ log' = [log EXCEPT ![p].fatal = IF ok THEN @ ELSE "self"]
    /\ UNCHANGED <<PATH, fs, path0>>

\* a handle list with its last opened handle closed
CloseLast(handles) == SubSeq(handles, 1, Len(handles) - 1)

\* lines 146-158: machine := self.Machine; self.Close(); ldCache is filled
CloseSelf(p) ==
    /\ call[p].pc = "closeself"
    /\ call' = [call EXCEPT ![p] =
                  [@ EXCEPT !.machine = SelfMachine,
                            !.handles = CloseLast(@),
                            !.ldCache = BuildLdCache(call[p].out, EmptyMap),
                            !.i = 1,
                            !.pc = "loop"]]
    /\ UNCHANGED <<PATH, fs, log, path0>>


\* line 160: for _, gpuFileName := range strArray; lines 162-163, 181: the
\* kind of the candidate; after the last candidate, line 195
NextCandidate(p) ==
    /\ call[p].pc = "loop"
    /\ call' = [call EXCEPT ![p] =
                  IF call[p].i > Len(call[p].strArray)
                  THEN [@ EXCEPT !.pc = "return"]
                  ELSE IF IsLibrary(call[p].strArray[call[p].i])
                       THEN [@ EXCEPT !.todo = DOMAIN call[p].ldCache, !.pc = "range"]
                       ELSE [@ EXCEPT !.pc = "lookpath"]]
    /\ UNCHANGED <<PATH, fs, log, path0>>

\* line 163: the range over ldCache has visited every key
EndRange(p) ==
    /\ call[p].pc = "range"
    /\ call[p].todo = {}
    /\ call' = [call EXCEPT ![p] = [@ EXCEPT !.i = @ + 1, !.pc = "loop"]]
    /\ UNCHANGED <<PATH, fs, log, path0>>

\* the entry libPath is one GetGpuPath opens for the candidate (lines 164-165)
Wanted(c, libPath) ==
    /\ NameMatches(c.ldCache[libPath], c.strArray[c.i])
    /\ ~SeenLib(c.libs, c.ldCache[libPath])

\* lines 163-165: an entry, in any order, that does not match the candidate
\* or whose name is resolved already
SkipEntry(p) ==
    /\ call[p].pc = "range"
    /\ \E libPath \in call[p].todo :
          /\ ~Wanted(call[p], libPath)
          /\ call' = [call EXCEPT ![p].todo = @ \ {libPath}]
    /\ UNCHANGED <<PATH, fs, log, path0>>

\* faulty variant of TodoAfterFailedOpen: the range loop is left (break)
TodoAfterFailedOpenBreak(todo, libPath) == {}

\* the keys still to visit after an elf.Open that failed: `continue` (line
\* 169) goes on with the other keys
TodoAfterFailedOpen(todo, libPath) == todo \ {libPath}

\* lines 166-170: elib, err := elf.Open(libPath); continue when it fails.
\* This err is a new variable of the inner block: the function's err is
\* not assigned.
OpenLib(p) ==
    /\ call[p].pc = "range"
    /\ \E libPath \in call[p].todo :
          /\ Wanted(call[p], libPath)
          /\ call' = [call EXCEPT ![p] =
                        IF fs[libPath] = NoELF
                        THEN [@ EXCEPT !.todo = TodoAfterFailedOpen(@, libPath)]
                        ELSE [@ EXCEPT !.todo = @ \ {libPath},
                                       !.libPath = libPath,
                                       !.handles = Append(@, libPath),
                                       !.pc = "elib"]]
          /\ log' = [log EXCEPT ![p].opens =
                        Append(@, [cand |-> call[p].strArray[call[p].i],
                                   path |-> libPath,
                                   name |-> call[p].ldCache[libPath],
                                   kind |-> fs[libPath]])]
    /\ UNCHANGED <<PATH, fs, path0>>

\* faulty variant of MarkSeen: the name is marked whatever the machine
MarkSeenAlways(libs, lib, libPath, same) == MapSet(libs, lib, libPath)

\* libs after the machine test of lines 172-175
MarkSeen(libs, lib, libPath, same) == IF same THEN MapSet(libs, lib, libPath) ELSE libs

\* libraries after the machine test of lines 172-175
AppendLib(libraries, libPath, same) == IF same THEN Append(libraries, libPath) ELSE libraries

\* faulty variant of CloseElib: a file of another machine is left open
CloseElibIfSame(handles, same) == IF same THEN CloseLast(handles) ELSE handles

\* the open handles after line 177: elib.Close() whatever the machine
CloseElib(handles, same) == CloseLast(handles)

\* lines 172-177: the machine test, the append, elib.Close()
CheckElib(p) ==
    /\ call[p].pc = "elib"
    /\ LET c == call[p]
           same == SameMachine(fs[c.libPath], c.machine)
       IN  call' = [call EXCEPT ![p] =
                      [@ EXCEPT !.libs = MarkSeen(@, c.ldCache[c.libPath], c.libPath, same),
                                !.libraries = AppendLib(@, c.libPath, same),
                                !.handles = CloseElib(@, same),
                                !.pc = "range"]]
    /\ UNCHANGED <<PATH, fs, log, path0>>

\* faulty variant of ErrAfterLookPath: the lookup assigns the function's err
ErrAfterLookPathAssigned(err, lookErr) == lookErr

\* the function's err after binary, err := exec.LookPath(...) in the inner
\* block (line 184): the inner err is another variable
ErrAfterLookPath(err, lookErr) == err

\* lines 184-191: the candidate is a binary
LookPathBinary(p) ==
    /\ call[p].pc = "lookpath"
    /\ LET c == call[p]
           binary == LookPath(c.strArray[c.i], PATH)
           found == binary # NotFound
           new == found /\ ~SeenBin(c.bins, binary)
       IN  /\ call' = [call EXCEPT ![p] =
                         [@ EXCEPT !.bins = IF new THEN MapSet(@, binary, binary) ELSE @,
                                   !.binaries = IF new THEN Append(@, binary) ELSE @,
                                   !.err = ErrAfterLookPath(@, IF found THEN Nil ELSE "not found"),
                                   !.i = @ + 1,
                                   !.pc = "loop"]]
           /\ log' = [log EXCEPT ![p].lookups =
                         Append(@, [cand |-> c.strArray[c.i],
                                    under |-> Getenv(PATH),
                                    binary |-> binary])]
    /\ UNCHANGED <<PATH, fs, path0>>

\* faulty variant of RestorePath: the deferred call is missing
RestorePathNever(env, deferred, oldPath) == env

\* PATH after the deferred call of line 99 has run, if it was registered
RestorePath(env, deferred, oldPath) == IF deferred THEN Setenv(oldPath) ELSE env

\* lines 113, 123, 143, 195: return of the named results, then the deferred
\* os.Setenv("PATH", oldPath)
Return(p) ==
    /\ call[p].pc = "return"
    /\ PATH' = RestorePath(PATH, call[p].deferred, call[p].oldPath)
    /\ call' = [call EXCEPT ![p] =
                  [@ EXCEPT !.ret = [libraries |-> call[p].libraries,
                                     binaries |-> call[p].binaries,
                                     err |-> call[p].err],
                            !.pc = "done"]]
    /\ log' = [log EXCEPT ![p].setenvs = IF call[p].deferred THEN @ + 1 ELSE @]
    /\ UNCHANGED <<fs, path0>>

Step(p) ==
    \/ GetOldPath(p)
    \/ SetPath(p)
    \/ ContainerCli(p)
    \/ Liblist(p)
    \/ Ldconfig(p)
    \/ OpenSelf(p)
    \/ CloseSelf(p)
    \/ NextCandidate(p)
    \/ EndRange(p)
    \/ SkipEntry(p)
    \/ OpenLib(p)
    \/ CheckElib(p)
    \/ LookPathBinary(p)
    \/ Return(p)

Next == \E p \in Procs : Step(p)

\* one call of GetGpuPath
Spec == Init /\ [][Next]_vars

\* two concurrent calls of GetGpuPath in one process
SpecConc == InitConc /\ [][Next]_vars


(***************************************************************************)
(* Properties.                                                             *)
(***************************************************************************)
Done(p) == call[p].pc = "done"

\* the cache-reported names of a list of library paths
NamesOf(c, paths) == [k \in 1..Len(paths) |-> c.ldCache[paths[k]]]

\* C1: at every point of a call, and in what it returns, no two library
\* paths carry the same cache-reported name and no binary path appears twice.
C1_NoDuplicates ==
    \A p \in Procs :
        /\ NoDup(NamesOf(call[p], call[p].libraries))
        /\ NoDup(call[p].binaries)
        /\ NoDup(NamesOf(call[p], call[p].ret.libraries))
        /\ NoDup(call[p].ret.binaries)

\* a returned call in which two different candidates both matched the name
\* of the one library returned
C1_Witness ==
    \E p \in Procs :
        /\ Done(p)
        /\ Len(call[p].ret.libraries) = 1
        /\ \E a, b \in 1..Len(call[p].strArray) :
              /\ call[p].strArray[a] # call[p].strArray[b]
              /\ IsLibrary(call[p].strArray[a]) /\ IsLibrary(call[p].strArray[b])
              /\ HasPrefix(call[p].ldCache[call[p].ret.libraries[1]], call[p].strArray[a])
              /\ HasPrefix(call[p].ldCache[call[p].ret.libraries[1]], call[p].strArray[b])

\* C2: every library path of the result is a file whose machine identifier
\* is that of the running executable; a file with another identifier that
\* was opened is not in the result.
C2_MachineMatches ==
    \A p \in Procs :
        /\ \A f \in Range(call[p].libraries) \cup Range(call[p].ret.libraries) :
              fs[f] = SelfMachine
        /\ \A k \in 1..Len(log[p].opens) :
              log[p].opens[k].kind # SelfMachine
                 => log[p].opens[k].path \notin Range(call[p].libraries)

\* a returned call that opened a file of another machine whose name equals
\* the candidate exactly, and returned another library
C2_Witness ==
    \E p \in Procs :
        /\ Done(p)
        /\ call[p].ret.libraries # <<>>
        /\ \E k \in 1..Len(log[p].opens) :
              /\ log[p].opens[k].kind = EM_386
              /\ log[p].opens[k].name = log[p].opens[k].cand
              /\ log[p].opens[k].path \notin Range(call[p].ret.libraries)

\* the provider phase of the call is over
PastProviders(p) == call[p].pc \notin {"idle", "start", "setenv", "cli", "liblist"}

\* the lines of a manifest that are candidates: trimmed, not blank, not
\* starting with the comment marker
IsCandidateLine(line) == line # <<>> /\ Head(line) # "#"
ManifestCandidates(lines) ==
    SelectSeq([k \in 1..Len(lines) |-> TrimSpace(lines[k])], IsCandidateLine)

\* C3: the helper-tool provider is invoked first; the manifest-file provider
\* is invoked at most once, and only after the helper failed; the candidates
\* are the helper's when it succeeded and the manifest's filtered lines when
\* it failed.
C3_FallbackOrder ==
    \A p \in Procs :
        /\ log[p].providers \in {<<>>, <<"cli">>, <<"cli", "liblist">>}
        /\ log[p].cliErr = Nil => "liblist" \notin Range(log[p].providers)
        /\ PastProviders(p) =>
              /\ log[p].providers # <<>>
              /\ log[p].cliErr # Nil <=> log[p].providers = <<"cli", "liblist">>
              /\ log[p].cliErr = Nil => call[p].strArray = CliScan(log[p].cliLines)
              /\ (log[p].cliErr # Nil /\ log[p].fatal # "manifest")
                    => call[p].strArray = ManifestCandidates(log[p].manifest)

\* a returned call whose helper failed and whose manifest held a comment
\* line and a candidate line
C3_Witness ==
    \E p \in Procs :
        /\ Done(p)
        /\ log[p].providers = <<"cli", "liblist">>
        /\ Len(log[p].manifest) = 2
        /\ Len(call[p].strArray) = 1
        /\ \E k \in 1..2 : HasPrefix(log[p].manifest[k], <<"#">>)

\* the call is between its os.Setenv and its return
Overridden(p) == call[p].pc \notin {"idle", "start", "setenv", "done"}

\* C4: in a single call with a non-empty override, PATH is the override from
\* the os.Setenv until the return; after the return, on every exit path,
\* os.Getenv("PATH") gives what it gave before the call (a PATH that was not
\* set is then set to the empty string); with an empty override PATH is
\* never written.
C4_ScopedOverride ==
    \A p \in Procs :
        /\ (call[p].envPath # <<>> /\ Overridden(p)) => PATH = Setenv(call[p].envPath)
        /\ Done(p) => Getenv(PATH) = Getenv(path0)
        /\ Done(p) /\ path0.set => PATH = path0
        /\ (call[p].pc # "idle" /\ call[p].envPath = <<>>)
              => (log[p].setenvs = 0 /\ PATH = path0)

\* a call with an override that returned because ldconfig failed, with PATH
\* written twice
C4_Witness ==
    \E p \in Procs :
        /\ Done(p)
        /\ call[p].envPath # <<>>
        /\ path0.set
        /\ log[p].fatal = "ldconfig"
        /\ log[p].setenvs = 2

\* C5: when both providers fail, or ldconfig cannot be run, or the running
\* executable cannot be opened, the call returns an error and two empty
\* lists, and no candidate is resolved after the failure.
C5_FatalErrors ==
    \A p \in Procs :
        log[p].fatal # "none" =>
            /\ call[p].pc \in {"return", "done"}
            /\ call[p].err # Nil
            /\ log[p].opens = <<>> /\ log[p].lookups = <<>>
            /\ Done(p) => /\ call[p].ret.err # Nil
                          /\ call[p].ret.libraries = <<>>
                          /\ call[p].ret.binaries = <<>>

\* a call that had candidates and a cache listing and returned because the
\* running executable could not be opened
C5_Witness ==
    \E p \in Procs :
        /\ Done(p)
        /\ log[p].fatal = "self"
        /\ call[p].strArray # <<>>
        /\ call[p].out # <<>>
        /\ call[p].ret.err # Nil


\* the call is in its candidate loop
InLoop(p) == call[p].pc \in {"loop", "range", "elib", "lookpath"}

\* an open of a library that did not lead to an append
FailedOpen(o) == o.kind # SelfMachine

\* C6: once candidates, cache listing and reference machine are obtained the
\* call returns a nil error, whatever happens to single candidates, and the
\* two lists only grow at their end: what was appended stays where it is, up
\* to and including the returned lists.
C6_CandidateFailuresNotFatal ==
    /\ [](\A p \in Procs :
             /\ InLoop(p) => call[p].err = Nil
             /\ (Done(p) /\ log[p].fatal = "none") =>
                   /\ call[p].ret.err = Nil
                   /\ call[p].ret.libraries = call[p].libraries
                   /\ call[p].ret.binaries = call[p].binaries)
    /\ [][\A p \in Procs :
             /\ IsPrefixOf(call[p].libraries, call'[p].libraries)
             /\ IsPrefixOf(call[p].binaries, call'[p].binaries)]_vars

\* a returned call that met a library it could not use, appended another
\* one, and then met a binary that is not on the search path
C6_Witness ==
    \E p \in Procs :
        /\ Done(p)
        /\ call[p].ret.err = Nil
        /\ Len(call[p].ret.libraries) = 1
        /\ \E a \in 1..Len(log[p].opens) : FailedOpen(log[p].opens[a])
        /\ \E a, b \in 1..Len(call[p].strArray) :
              /\ a < b
              /\ IsLibrary(call[p].strArray[a])
              /\ HasPrefix(call[p].ldCache[call[p].ret.libraries[1]], call[p].strArray[a])
              /\ LookPath(call[p].strArray[b], PATH) = NotFound
        /\ \E k \in 1..Len(log[p].lookups) : log[p].lookups[k].binary = NotFound

IsBinary(gpuFileName) == ~Contains(gpuFileName, SoMarker)

\* C7: every library path of the result is a key of the cache mapping whose
\* name has a candidate containing ".so" as a prefix; without such a
\* candidate the library list is empty; only candidates with the marker are
\* matched against the cache, and each candidate without it goes through
\* one search-path lookup and nothing else.
C7_PrefixOfMarkedCandidate ==
    \A p \in Procs :
        LET c == call[p]
            marked == {g \in Range(c.strArray) : Contains(g, SoMarker)}
        IN  /\ \A f \in Range(c.libraries) \cup Range(c.ret.libraries) :
                  /\ f \in DOMAIN c.ldCache
                  /\ \E g \in marked : HasPrefix(c.ldCache[f], g)
            /\ marked = {} => (c.libraries = <<>> /\ c.ret.libraries = <<>>)
            /\ \A k \in 1..Len(log[p].opens) : log[p].opens[k].cand \in marked
            /\ \A k \in 1..Len(log[p].lookups) : log[p].lookups[k].cand \notin marked
            /\ (Done(p) /\ log[p].fatal = "none") =>
                  [k \in 1..Len(log[p].lookups) |-> log[p].lookups[k].cand]
                     = SelectSeq(c.strArray, IsBinary)

\* a returned call with a library and a binary in its result, whose cache
\* held a compatible library that no candidate is a prefix of
C7_Witness ==
    \E p \in Procs :
        /\ Done(p)
        /\ call[p].ret.libraries # <<>>
        /\ call[p].ret.binaries # <<>>
        /\ \E f \in DOMAIN call[p].ldCache :
              /\ fs[f] = SelfMachine
              /\ f \notin Range(call[p].ret.libraries)
              /\ \E g \in Range(call[p].strArray) : Contains(call[p].ldCache[f], g)

\* C8 as stated: after a cache entry's machine test fails, no entry with the
\* same name is opened again in the call.
C8_NameAttemptedOnce ==
    \A p \in Procs :
        \A a, b \in 1..Len(log[p].opens) :
            (a < b /\ log[p].opens[a].kind = EM_386)
               => log[p].opens[b].name # log[p].opens[a].name

\* C8 as amended: a name is marked seen exactly when a path carrying it is
\* appended; after that no entry with the name is opened again; a failed
\* machine test or a failed open does not mark the name, so that in a call
\* that ran its loop to the end every cache entry of a name that stayed
\* unresolved was opened for every candidate matching it.
C8_SeenOnlyWhenAppended ==
    \A p \in Procs :
        LET c == call[p]
        IN  /\ DOMAIN c.libs = Range(NamesOf(c, c.libraries))
            /\ \A a, b \in 1..Len(log[p].opens) :
                  (a < b /\ log[p].opens[a].kind = SelfMachine)
                     => log[p].opens[b].name # log[p].opens[a].name
            /\ (Done(p) /\ log[p].fatal = "none") =>
                  \A f \in DOMAIN c.ldCache, g \in Range(c.strArray) :
                      (IsLibrary(g) /\ HasPrefix(c.ldCache[f], g)
                         /\ c.ldCache[f] \notin DOMAIN c.libs)
                        => \E k \in 1..Len(log[p].opens) :
                              log[p].opens[k].path = f /\ log[p].opens[k].cand = g

\* a returned call that opened an entry of another machine and later an
\* entry of the same name, which it returned
C8_Witness ==
    \E p \in Procs :
        /\ Done(p)
        /\ \E a, b \in 1..Len(log[p].opens) :
              /\ a < b
              /\ log[p].opens[a].kind = EM_386
              /\ log[p].opens[b].name = log[p].opens[a].name
              /\ log[p].opens[b].kind = SelfMachine
              /\ log[p].opens[b].path \in Range(call[p].ret.libraries)

\* C9: with two concurrent calls, every binary lookup of a call runs under
\* that call's own override, and once both calls have returned PATH is what
\* it was before either started.
C9_CallScopedOverride ==
    /\ \A p \in Procs :
          \A k \in 1..Len(log[p].lookups) : log[p].lookups[k].under = call[p].envPath
    /\ (\A p \in Procs : Done(p)) => PATH = path0

\* C10: at most one object file is open at any point of a call: the running
\* executable between its open and its close, a library between its open
\* and its close, nothing otherwise, in particular after a failed open and
\* when the call has returned.
C10_HandlesScoped ==
    \A p \in Procs :
        /\ Len(call[p].handles) <= 1
        /\ call[p].pc = "closeself" => call[p].handles = <<SelfExe>>
        /\ call[p].pc = "elib" => call[p].handles = <<call[p].libPath>>
        /\ call[p].pc \notin {"closeself", "elib"} => call[p].handles = <<>>

\* a returned call that opened a library of another machine and a file that
\* is no object file, and has no handle left
C10_Witness ==
    \E p \in Procs :
        /\ Done(p)
        /\ call[p].handles = <<>>
        /\ \E a, b \in 1..Len(log[p].opens) :
              /\ log[p].opens[a].kind = EM_386
              /\ log[p].opens[b].kind = NoELF

\* the cache entries a call can resolve: the name has a candidate with the
\* marker as a prefix, and the file opens with the reference machine
Resolvable(c) ==
    {f \in DOMAIN c.ldCache :
        /\ fs[f] = SelfMachine
        /\ \E g \in Range(c.strArray) : IsLibrary(g) /\ HasPrefix(c.ldCache[f], g)}

\* C11: in a call that ran its loop to the end, the names of the returned
\* library paths are exactly the names of the resolvable cache entries, each
\* carried by exactly one returned path, whatever the order in which the
\* cache mapping was ranged over: the set of names is a function of the
\* candidates, the cache mapping and the files alone.
C11_NamesOrderIndependent ==
    \A p \in Procs :
        (Done(p) /\ log[p].fatal = "none") =>
            LET c == call[p]
                names == NamesOf(c, c.ret.libraries)
            IN  /\ Range(names) = {c.ldCache[f] : f \in Resolvable(c)}
                /\ \A f \in Resolvable(c) :
                      Cardinality({k \in 1..Len(names) : names[k] = c.ldCache[f]}) = 1

\* a returned call whose cache held two paths of one name: the one returned
\* was opened after a file that could not be used had been opened, and the
\* other path is not returned
C11_Witness ==
    \E p \in Procs :
        /\ Done(p)
        /\ log[p].fatal = "none"
        /\ Len(call[p].ret.libraries) = 1
        /\ Cardinality(DOMAIN call[p].ldCache) = 2
        /\ \E f \in DOMAIN call[p].ldCache :
              /\ f \notin Range(call[p].ret.libraries)
              /\ call[p].ldCache[f] = call[p].ldCache[call[p].ret.libraries[1]]
        /\ \E a, b \in 1..Len(log[p].opens) :
              /\ a < b
              /\ FailedOpen(log[p].opens[a])
              /\ log[p].opens[b].path = call[p].ret.libraries[1]

=============================================================================
